---- MODULE Spec2Model ----
(***************************************************************************)
(* Model of src/app.py: a Streamlit page that, on a click of "Analyze      *)
(* Finances", runs a compiled LangGraph chain analyzer -> budgetor ->      *)
(* investor over a shared state record and stores the final record in the  *)
(* session state.                                                          *)
(*                                                                         *)
(* Texts are sequences of tokens (strings); the Python test                *)
(* `"error" in s` is containment of the token "error".                     *)
(***************************************************************************)
EXTENDS Integers, Sequences, FiniteSets, TLC

VARIABLES
    selected_user_id,   \* st.selectbox value (line 271)
    results,            \* st.session_state.results: None or <<final_state>>
    messages,           \* st.session_state.messages
    status,             \* label of the st.status box of the last click
    error_text,         \* text passed to st.error by the last click
    pc,                 \* position of the script / of app.invoke
    state,              \* the graph's shared state record (channel values)
    next_node,          \* node scheduled for the next superstep
    cur,                \* node running in the current superstep
    step,               \* supersteps started by this app.invoke
    pending,            \* partial update returned by the running node
    intermediate_steps, \* AgentExecutor's list of tool observations
    tgs_calls,          \* history: Text Generation Service invocations per stage
    call_log,           \* history: node invocations and merges of this run
    writes,             \* history: writers of each field in this run, in order
    failure,            \* history: where and why this run failed
    lookups,            \* history: what each ledger lookup of this run did
    clicks,             \* history: clicks so far
    config,             \* what the process found at start: API key, key.json
    tgs_input,          \* history: text each stage passed to the service
    returned,           \* history: update each stage returned
    run,                \* per browser session: the script run and its record
    store,              \* per browser session: its st.session_state
    actor               \* history: the session that took the last step

\* The sessions of the two-session specification
conc_vars == <<run, store, actor>>

\* What no step of a run changes
aux == <<config, conc_vars>>

\* The single session followed in detail
flat_vars == <<selected_user_id, results, messages, status, error_text, pc, state,
               next_node, cur, step, pending, intermediate_steps, tgs_calls,
               call_log, writes, failure, lookups, clicks, tgs_input, returned>>

vars == <<flat_vars, aux>>

----------------------------------------------------------------------------
(* Bounds of the model *)

MaxClicks == 2      \* clicks of the Analyze button explored
MaxToolCalls == 2   \* tool calls the agent may make in one analyzer run
MaxRows == 1        \* rows a ledger query may return

----------------------------------------------------------------------------
(* Constants of the program *)

user_ids == <<"user_001", "user_002", "user_003", "user_004", "user_005">>

UserIds == {user_ids[i] : i \in 1..Len(user_ids)}

START == "__start__"
END == "__end__"

\* FinancialGraphState
Fields == {"user_id", "analysis_result", "budget_plan", "investment_options", "raw_data"}

Stages == {"analyzer", "budgetor", "investor"}

\* workflow.set_entry_point("analyzer")
\* (variant: the entry point set to the second node)
entry_point_skip == "budgetor"
entry_point == "analyzer"

\* workflow.add_edge(...)
\* (variant: the edge out of investor goes back to analyzer)
edges_loop == [n \in {START} \cup Stages |->
                CASE n = START -> entry_point
                  [] n = "analyzer" -> "budgetor"
                  [] n = "budgetor" -> "investor"
                  [] n = "investor" -> "analyzer"]
\* (variant: the edge out of budgetor goes straight to END)
edges_short == [n \in {START} \cup Stages |->
                 CASE n = START -> entry_point
                   [] n = "analyzer" -> "budgetor"
                   [] n = "budgetor" -> END
                   [] n = "investor" -> END]
edges == [n \in {START} \cup Stages |->
            CASE n = START -> entry_point
              [] n = "analyzer" -> "budgetor"
              [] n = "budgetor" -> "investor"
              [] n = "investor" -> END]

\* app.invoke(initial_state, {"recursion_limit": 5})
\* (variant: a limit sized to the entry and the three nodes only)
recursion_limit_low == Cardinality(Stages) + 1
recursion_limit == 5

\* AgentExecutor(agent=agent, tools=tools, verbose=True): the option
\* return_intermediate_steps is not passed and keeps its default, False.
return_intermediate_steps == FALSE

None == <<>>

EmptyRecord == [f \in {} |-> <<>>]

----------------------------------------------------------------------------
(* Values the external collaborators may produce *)

\* Texts the language model may generate
LLMTexts == {<<"narrative A">>, <<"narrative B">>}

\* str(e) of an exception raised by a language-model call
GenerationErrors == {<<"429 quota exceeded">>, <<"503 service unavailable">>}

\* str(e) of an exception raised inside get_transaction_data's try block
LookupErrors == {<<"403 access denied">>}

\* Rows of the transactions table
Transactions ==
    { [date |-> "2024-01-05", description |-> <<"Salary">>, amount |-> 2500,
       category |-> "Income", bank_name |-> "Chase"],
      [date |-> "2024-01-09", description |-> <<"Refund of billing ", "error">>,
       amount |-> -800, category |-> "Fees", bank_name |-> "Chase"] }

RECURSIVE SeqsUpTo(_, _)
SeqsUpTo(S, n) ==
    IF n = 0 THEN {<<>>}
    ELSE LET shorter == SeqsUpTo(S, n - 1)
         IN shorter \cup {Append(s, x) : s \in {t \in shorter : Len(t) = n - 1}, x \in S}

----------------------------------------------------------------------------
(* Pure helpers *)

\* Python: w in s
Contains(s, w) == \E i \in 1..Len(s) : s[i] = w

\* Python: d.get(k, default)
Get(d, k, default) == IF k \in DOMAIN d THEN d[k] ELSE default

\* json.dumps({"error": msg})
JsonError(msg) == <<"{\"", "error", "\": \"">> \o msg \o <<"\"}">>

\* json.dumps of one row, after t['date'] = t['date'].isoformat()
JsonRow(t) ==
    <<"{\"date\": \"", t.date, "\", \"description\": \"">> \o t.description
    \o <<"\", \"amount\": ", ToString(t.amount), ", \"category\": \"", t.category,
         "\", \"bank_name\": \"", t.bank_name, "\"}">>

RECURSIVE JsonRows(_)
JsonRows(rows) ==
    IF rows = <<>> THEN <<>>
    ELSE JsonRow(Head(rows)) \o (IF Len(rows) > 1 THEN <<", ">> ELSE <<>>) \o JsonRows(Tail(rows))

\* json.dumps(transactions)
JsonList(rows) == <<"[">> \o JsonRows(rows) \o <<"]">>

\* get_transaction_data(user_id): `outcome` is what the BigQuery client did
get_transaction_data(user_id, outcome) ==
    IF outcome.kind = "exception"
    THEN JsonError(<<"An error occurred while querying BigQuery: ">> \o outcome.e)
    ELSE IF outcome.rows = <<>>
    THEN JsonError(<<"No transactions found for user_id '", user_id, "'.">>)
    ELSE JsonList(outcome.rows)

\* How a lookup ended: an exception, no rows, or rows
LookupKind(outcome) ==
    IF outcome.kind = "exception" THEN "exception"
    ELSE IF outcome.rows = <<>> THEN "empty" ELSE "rows"

\* user_id arguments the model may pass to the tool: the one it was asked
\* about, or one that is not in the table
ToolArgs(record) == {record["user_id"], "user_999"}

LedgerOutcomes ==
    {[kind |-> "exception", e |-> e] : e \in LookupErrors}
    \cup {[kind |-> "rows", rows |-> r] : r \in SeqsUpTo(Transactions, MaxRows)}

\* What agent_executor.invoke returns: the inputs, the output and, only when
\* the executor was built with return_intermediate_steps, the steps.
AgentExecutorResult(input, output, steps) ==
    IF return_intermediate_steps
    THEN [k \in {"input", "output", "intermediate_steps"} |->
            CASE k = "input" -> input [] k = "output" -> output [] OTHER -> steps]
    ELSE [k \in {"input", "output"} |->
            CASE k = "input" -> input [] OTHER -> output]

\* The state update a stage returns
AnalyzerFailedUpdate(raw_data_result) ==
    [f \in {"analysis_result"} |->
        <<"Failed to retrieve data. Check user ID and database.\nDetails: ">>
        \o raw_data_result]

AnalyzerUpdate(result, raw_data_result) ==
    [f \in {"analysis_result", "raw_data"} |->
        IF f = "analysis_result" THEN result["output"] ELSE raw_data_result]

\* (variant: the budgetor also returns analysis_result)
BudgetorUpdate_overwrite(content) ==
    [f \in {"budget_plan", "analysis_result"} |-> content]
BudgetorUpdate(content) == [f \in {"budget_plan"} |-> content]

InvestorUpdate(content) == [f \in {"investment_options"} |-> content]

\* LangGraph's merge of a node's update into the state record
\* (variant: the update replaces the record)
MergeUpdate_replace(record, update) == update
MergeUpdate(record, update) ==
    [f \in DOMAIN record \cup DOMAIN update |->
        IF f \in DOMAIN update THEN update[f] ELSE record[f]]

\* st.error(f"An error occurred: {e}")
ErrorText(e) == <<"An error occurred: ">> \o e

NoFailure == [stage |-> "none", kind |-> "none", e |-> <<>>]

----------------------------------------------------------------------------
(* Metric lines: what the model may write, and parse_metrics (lines 244-265) *)

Abs(n) == IF n < 0 THEN -n ELSE n

RECURSIVE SumIf(_, _)
\* Sum of the amounts of one sign (sign 1: positive, -1: negative, 0: all)
SumIf(rows, sign) ==
    IF rows = <<>> THEN 0
    ELSE (IF sign = 0 \/ Head(rows).amount * sign > 0 THEN Head(rows).amount ELSE 0)
         + SumIf(Tail(rows), sign)

\* Numbers whose digit strings occur in the texts of the model
KnownNumbers ==
    UNION {{Abs(SumIf(r, 1)), Abs(SumIf(r, -1)), Abs(SumIf(r, 0))} :
              r \in SeqsUpTo(Transactions, MaxRows)}

\* Where the model puts the minus sign of a negative amount
SignStyles == {"after", "before", "dropped"}

\* An amount as the model writes it: $N.00, $-N.00, -$N.00 or the magnitude
Money(n, style) ==
    LET digits == <<ToString(Abs(n)), ".", "00">>
    IN IF n >= 0 \/ style = "dropped" THEN <<"$">> \o digits
       ELSE IF style = "after" THEN <<"$", "-">> \o digits
       ELSE <<"-", "$">> \o digits

\* An analysis that opens with the metric lines the system prompt asks for
\* (lines 115-118), stating the true sums of `rows`
MetricsText(rows, style) ==
    <<"### Metrics Summary", "\n", "Total Income:", " ">> \o Money(SumIf(rows, 1), style)
    \o <<"\n", "Total Spending:", " ">> \o Money(SumIf(rows, -1), style)
    \o <<"\n", "Net Flow:", " ">> \o Money(SumIf(rows, 0), style)
    \o <<"\n", IF rows = <<>> THEN "No transactions were found for this user."
               ELSE "### Executive Summary ...">>

\* Texts the model may give as the analyzer's answer after these lookups:
\* a narrative without metric lines, or the metrics of rows it was shown
AnalysisTexts(ls) ==
    LLMTexts \cup
    {MetricsText(ls[i].rows, style) :
        i \in {j \in 1..Len(ls) : ls[j].kind = "rows"}, style \in SignStyles}

\* [\s\xa0]
IsSpace(tok) == tok \in {" ", "\n", "nbsp"}

\* [\d,\.]
IsNumberChar(tok) ==
    tok \in {",", "."} \cup {"00"} \cup {ToString(n) : n \in KnownNumbers}

RECURSIVE SkipSpaces(_, _)
\* First position from j on that holds no space
SkipSpaces(text, j) ==
    IF j <= Len(text) /\ IsSpace(text[j]) THEN SkipSpaces(text, j + 1) ELSE j

RECURSIVE NumberEnd(_, _)
\* Position after the longest run of number characters that starts at j
NumberEnd(text, j) ==
    IF j <= Len(text) /\ IsNumberChar(text[j]) THEN NumberEnd(text, j + 1) ELSE j

\* re.search(label + r"[\s\xa0]*\$(-?[\d,\.]+)") when minus, else without
\* the -?: group(1) of the first match, or <<>> when nothing matches
SearchAmount(text, label, minus) ==
    LET from(i) ==
            LET d == SkipSpaces(text, i + 1)
            IN IF minus /\ d + 1 <= Len(text) /\ text[d + 1] = "-" THEN d + 2 ELSE d + 1
        dollar(i) == SkipSpaces(text, i + 1)
        hits == {i \in 1..Len(text) :
                    /\ text[i] = label
                    /\ dollar(i) <= Len(text)
                    /\ text[dollar(i)] = "$"
                    /\ NumberEnd(text, from(i)) > from(i)}
    IN IF hits = {} THEN <<>>
       ELSE LET i == CHOOSE h \in hits : \A k \in hits : h <= k
            IN SubSeq(text, dollar(i) + 1, NumberEnd(text, from(i)) - 1)

\* float(s.replace(',', '')) for the shapes N, N.00, -N, -N.00 (in whole
\* units); "raise" stands for ValueError
FloatOf(capture) ==
    LET neg == capture # <<>> /\ capture[1] = "-"
        body == IF neg THEN Tail(capture) ELSE capture
        whole == Len(body) \in {1, 3} /\ body[1] \in {ToString(n) : n \in KnownNumbers}
                 /\ (Len(body) = 3 => body[2] = "." /\ body[3] = "00")
    IN IF ~whole THEN [kind |-> "raise", val |-> 0]
       ELSE LET n == CHOOSE k \in KnownNumbers : ToString(k) = body[1]
            IN [kind |-> "float", val |-> IF neg THEN -n ELSE n]

NotAvailable == <<"N/A">>

\* parse_metrics(analysis_result).  Income and spending stay the matched
\* text behind a "$"; the net flow is kept as the number that line 259 formats.
parse_metrics(analysis_result) ==
    LET income_match == SearchAmount(analysis_result, "Total Income:", FALSE)
        spending_match == SearchAmount(analysis_result, "Total Spending:", FALSE)
        net_flow_match == SearchAmount(analysis_result, "Net Flow:", TRUE)
        net_flow_val == FloatOf(net_flow_match)
    IN [income |-> IF income_match # <<>> THEN <<"$">> \o income_match ELSE NotAvailable,
        spending |-> IF spending_match # <<>> THEN <<"$">> \o spending_match
                     ELSE NotAvailable,
        net_flow |-> IF net_flow_match # <<>> /\ net_flow_val.kind = "float"
                     THEN [val |-> net_flow_val.val,
                           delta_color |-> IF net_flow_val.val < 0 THEN "inverse"
                                           ELSE "normal"]
                     ELSE [val |-> NotAvailable, delta_color |-> "off"]]

----------------------------------------------------------------------------
(* Process start *)

\* What the process may find at start: GOOGLE_API_KEY in the environment,
\* key.json next to the script
Configs == [api_key : BOOLEAN, key_file : BOOLEAN]

FullConfig == [api_key |-> TRUE, key_file |-> TRUE]

\* Lines 31-49: the credentials path is only computed and exported (no
\* check that key.json exists); a missing GOOGLE_API_KEY stops the script.
StartsUp(cfg) == cfg.api_key

\* str(e) of bigquery.Client.from_service_account_json without key.json
MissingKeyError == <<"[Errno 2] No such file or directory: key.json">>

\* What a query can do under a configuration (line 62 raises without key.json)
AvailableOutcomes(cfg) ==
    IF cfg.key_file THEN LedgerOutcomes
    ELSE {[kind |-> "exception", e |-> MissingKeyError]}

NoTexts == [s \in Stages |-> <<>>]

NoUpdates == [s \in Stages |-> <<>>]

SessionIds == {"s1", "s2"}

\* The st.session_state a session's script run works on
\* (variant: one store for the whole process)
StoreOf_shared(s) == "s1"
StoreOf(s) == s

IdleRun ==
    [pc |-> "idle", user |-> user_ids[1], state |-> EmptyRecord,
     next_node |-> END, cur |-> END, step |-> 0, pending |-> EmptyRecord]

FreshStore == [results |-> None, messages |-> <<>>, status |-> "none"]

----------------------------------------------------------------------------
(* Initial state: the script has run once without a click (lines 279-282), *)
(* or has stopped at line 43.                                              *)

Init ==
    /\ config \in Configs
    /\ selected_user_id = user_ids[1]
    /\ results = None
    /\ messages = <<>>
    /\ status = "none"
    /\ error_text = <<>>
    /\ pc = IF StartsUp(config) THEN "idle" ELSE "stopped"
    /\ state = EmptyRecord
    /\ next_node = END
    /\ cur = END
    /\ step = 0
    /\ pending = EmptyRecord
    /\ intermediate_steps = <<>>
    /\ tgs_calls = [s \in Stages |-> 0]
    /\ call_log = <<>>
    /\ writes = [f \in Fields |-> <<>>]
    /\ failure = NoFailure
    /\ lookups = <<>>
    /\ clicks = 0
    /\ tgs_input = NoTexts
    /\ returned = NoUpdates
    /\ run = [s \in SessionIds |-> IdleRun]
    /\ store = [s \in SessionIds |-> FreshStore]
    /\ actor = "none"

----------------------------------------------------------------------------
(* An exception leaves app.invoke and reaches the handler's except clause   *)
(* (lines 293-295); results keeps the None of line 285.                     *)

\* (variant: the handler stores the record reached so far)
Raise_partial(stage, kind, e) ==
    /\ status' = "error"
    /\ error_text' = ErrorText(e)
    /\ failure' = [stage |-> stage, kind |-> kind, e |-> e]
    /\ pc' = "done"
    /\ results' = <<state>>
    /\ UNCHANGED <<state, next_node, cur, step, pending>>
Raise(stage, kind, e) ==
    /\ status' = "error"
    /\ error_text' = ErrorText(e)
    /\ failure' = [stage |-> stage, kind |-> kind, e |-> e]
    /\ pc' = "done"
    /\ UNCHANGED <<results, state, next_node, cur, step, pending>>

\* str(KeyError(k))
KeyErrorText(k) == <<"'", k, "'">>

RecursionErrorText ==
    <<"Recursion limit of ", ToString(recursion_limit),
      " reached without hitting a stop condition.">>

\* Line 285
\* (variant: the click keeps the stored results)
ResetResults_keep(old) == old
ResetResults(old) == None

\* Lines 154 and 182: the field a chain stage reads and passes on
BudgetorInput(record) == record["analysis_result"]

\* (variant: the investor reads the analysis)
InvestorInput_analysis(record) == record["analysis_result"]
InvestorInput(record) == record["budget_plan"]

\* Lines 143-149: what the analyzer makes of the executor's answer
AnalyzerOutcome(user_id, output, steps) ==
    LET result == AgentExecutorResult(user_id, output, steps)
        got == Get(result, "intermediate_steps", <<<<"", <<>>>>>>)
    IN IF got = <<>>
       THEN [kind |-> "raise", update |-> EmptyRecord]
       ELSE LET raw_data_result == got[1][2]
            IN [kind |-> "update",
                update |-> IF Contains(raw_data_result, "error")
                           THEN AnalyzerFailedUpdate(raw_data_result)
                           ELSE AnalyzerUpdate(result, raw_data_result)]

----------------------------------------------------------------------------
(* Actions *)

\* The user picks another user in the sidebar while no run is in progress.
SelectUser(u) ==
    /\ pc \in {"idle", "done"}
    /\ u # selected_user_id
    /\ selected_user_id' = u
    /\ UNCHANGED <<results, messages, status, error_text, pc, state, next_node,
                   cur, step, pending, intermediate_steps, tgs_calls, call_log,
                   writes, failure, lookups, clicks, tgs_input, returned, aux>>

\* Lines 284-290: the click resets the session state and enters app.invoke.
Click ==
    /\ pc \in {"idle", "done"}
    /\ clicks < MaxClicks
    /\ clicks' = clicks + 1
    /\ results' = ResetResults(results)
    /\ messages' = <<>>
    /\ status' = "running"
    /\ error_text' = <<>>
    /\ state' = EmptyRecord
    /\ pending' = [f \in {"user_id"} |-> selected_user_id]   \* initial_state
    /\ next_node' = START
    /\ cur' = END
    /\ step' = 0
    /\ intermediate_steps' = <<>>
    /\ tgs_calls' = [s \in Stages |-> 0]
    /\ call_log' = <<>>
    /\ writes' = [f \in Fields |-> <<>>]
    /\ failure' = NoFailure
    /\ lookups' = <<>>
    /\ pc' = "loop"
    /\ tgs_input' = NoTexts
    /\ returned' = NoUpdates
    /\ UNCHANGED <<selected_user_id, aux>>

\* One turn of the graph's loop: out of steps, nothing left to run (return
\* the record, lines 291-292), or start the scheduled node.  The loop makes
\* at most recursion_limit turns; the turn that finds nothing scheduled is
\* one of them.
PregelTick ==
    /\ pc = "loop"
    /\ IF step >= recursion_limit
       THEN /\ Raise("runner", "GraphRecursionError", RecursionErrorText)
            /\ UNCHANGED <<call_log>>
       ELSE IF next_node = END
       THEN /\ results' = <<state>>
            /\ status' = "complete"
            /\ pc' = "done"
            /\ UNCHANGED <<error_text, failure, state, next_node, cur, step,
                           pending, call_log>>
       ELSE /\ cur' = next_node
            /\ step' = step + 1
            /\ call_log' = Append(call_log, <<"invoke", next_node>>)
            /\ pc' = "node"
            /\ UNCHANGED <<results, status, error_text, failure, state,
                           next_node, pending>>
    /\ UNCHANGED <<selected_user_id, messages, intermediate_steps, tgs_calls,
                   writes, lookups, clicks, tgs_input, returned, aux>>

\* The entry node hands the input to the state channels.
StartNode ==
    /\ pc = "node"
    /\ cur = START
    /\ pc' = "merge"
    /\ UNCHANGED <<selected_user_id, results, messages, status, error_text,
                   state, next_node, cur, step, pending, intermediate_steps,
                   tgs_calls, call_log, writes, failure, lookups, clicks,
                   tgs_input, returned, aux>>

\* The running node's update is merged and its successor scheduled.
Merge ==
    /\ pc = "merge"
    /\ state' = MergeUpdate(state, pending)
    /\ writes' = [f \in Fields |->
                    IF f \in DOMAIN pending THEN Append(writes[f], cur) ELSE writes[f]]
    /\ call_log' = Append(call_log, <<"merge", cur>>)
    /\ next_node' = edges[cur]
    /\ pending' = EmptyRecord
    /\ pc' = "loop"
    /\ UNCHANGED <<selected_user_id, results, messages, status, error_text,
                   cur, step, intermediate_steps, tgs_calls, failure, lookups,
                   clicks, tgs_input, returned, aux>>

\* analyzer_agent_node, lines 102-143 up to the call of agent_executor.invoke
AnalyzerEnter ==
    /\ pc = "node"
    /\ cur = "analyzer"
    /\ messages' = Append(messages, "Analyzer Agent")
    /\ IF "user_id" \in DOMAIN state
       THEN /\ tgs_calls' = [tgs_calls EXCEPT !["analyzer"] = @ + 1]
            /\ tgs_input' = [tgs_input EXCEPT !["analyzer"] = <<<<state["user_id"]>>>>]
            /\ intermediate_steps' = <<>>
            /\ pc' = "agent"
            /\ UNCHANGED <<results, status, error_text, failure, state,
                           next_node, cur, step, pending>>
       ELSE /\ Raise("analyzer", "KeyError", KeyErrorText("user_id"))
            /\ UNCHANGED <<tgs_calls, tgs_input, intermediate_steps>>
    /\ UNCHANGED <<selected_user_id, call_log, writes, lookups, clicks,
                   returned, aux>>

\* Inside agent_executor.invoke: the model asks for the tool, the tool runs
\* and its observation is recorded.
AgentToolCall ==
    /\ pc = "agent"
    /\ Len(intermediate_steps) < MaxToolCalls
    /\ \E arg \in ToolArgs(state), outcome \in AvailableOutcomes(config) :
          /\ intermediate_steps' =
                Append(intermediate_steps, <<arg, get_transaction_data(arg, outcome)>>)
          /\ lookups' = Append(lookups, outcome)
    /\ UNCHANGED <<selected_user_id, results, messages, status, error_text, pc,
                   state, next_node, cur, step, pending, tgs_calls, call_log,
                   writes, failure, clicks, tgs_input, returned, aux>>

\* Inside agent_executor.invoke: a call of the language model raises.
AgentFail(e) ==
    /\ pc = "agent"
    /\ Raise("analyzer", "GenerationFailure", e)
    /\ intermediate_steps' = <<>>
    /\ UNCHANGED <<selected_user_id, messages, tgs_calls, call_log, writes,
                   lookups, clicks, tgs_input, returned, aux>>

\* The model gives its final answer; lines 143-149 build the update.
AgentFinish ==
    /\ pc = "agent"
    /\ \E output \in AnalysisTexts(lookups) :
          LET outcome == AnalyzerOutcome(state["user_id"], output, intermediate_steps)
          IN IF outcome.kind = "raise"
             THEN /\ Raise("analyzer", "IndexError", <<"list index out of range">>)
                  /\ UNCHANGED returned
             ELSE /\ pending' = outcome.update
                  /\ returned' = [returned EXCEPT !["analyzer"] = <<outcome.update>>]
                  /\ pc' = "merge"
                  /\ UNCHANGED <<results, status, error_text, failure, state,
                                 next_node, cur, step>>
    /\ intermediate_steps' = <<>>
    /\ UNCHANGED <<selected_user_id, messages, tgs_calls, call_log, writes,
                   lookups, clicks, tgs_input, aux>>

\* budgetor_agent_node, lines 153-154 and the call of chain.invoke
BudgetorEnter ==
    /\ pc = "node"
    /\ cur = "budgetor"
    /\ messages' = Append(messages, "Budgetor Agent")
    /\ IF "analysis_result" \in DOMAIN state
       THEN /\ tgs_calls' = [tgs_calls EXCEPT !["budgetor"] = @ + 1]
            /\ tgs_input' = [tgs_input EXCEPT !["budgetor"] = <<BudgetorInput(state)>>]
            /\ pc' = "chain"
            /\ UNCHANGED <<results, status, error_text, failure, state,
                           next_node, cur, step, pending>>
       ELSE /\ Raise("budgetor", "KeyError", KeyErrorText("analysis_result"))
            /\ UNCHANGED <<tgs_calls, tgs_input>>
    /\ UNCHANGED <<selected_user_id, intermediate_steps, call_log, writes,
                   lookups, clicks, returned, aux>>

\* investor_agent_node, lines 181-182 and the call of chain.invoke
InvestorEnter ==
    /\ pc = "node"
    /\ cur = "investor"
    /\ messages' = Append(messages, "Investor Agent")
    /\ IF "budget_plan" \in DOMAIN state
       THEN /\ tgs_calls' = [tgs_calls EXCEPT !["investor"] = @ + 1]
            /\ tgs_input' = [tgs_input EXCEPT !["investor"] = <<InvestorInput(state)>>]
            /\ pc' = "chain"
            /\ UNCHANGED <<results, status, error_text, failure, state,
                           next_node, cur, step, pending>>
       ELSE /\ Raise("investor", "KeyError", KeyErrorText("budget_plan"))
            /\ UNCHANGED <<tgs_calls, tgs_input>>
    /\ UNCHANGED <<selected_user_id, intermediate_steps, call_log, writes,
                   lookups, clicks, returned, aux>>

\* chain.invoke returns; lines 177 and 221 build the update.
ChainReturn(content) ==
    /\ pc = "chain"
    /\ LET update == IF cur = "budgetor" THEN BudgetorUpdate(content)
                     ELSE InvestorUpdate(content)
       IN /\ pending' = update
          /\ returned' = [returned EXCEPT ![cur] = <<update>>]
    /\ pc' = "merge"
    /\ UNCHANGED <<selected_user_id, results, messages, status, error_text,
                   state, next_node, cur, step, intermediate_steps, tgs_calls,
                   call_log, writes, failure, lookups, clicks, tgs_input, aux>>

\* chain.invoke raises.
\* (variant: one more invocation before giving up)
ChainFail_retry(e) ==
    /\ pc = "chain"
    /\ IF tgs_calls[cur] < 2
       THEN /\ tgs_calls' = [tgs_calls EXCEPT ![cur] = @ + 1]
            /\ UNCHANGED <<results, status, error_text, failure, pc, state,
                           next_node, cur, step, pending>>
       ELSE /\ Raise(cur, "GenerationFailure", e)
            /\ UNCHANGED tgs_calls
    /\ UNCHANGED <<selected_user_id, messages, intermediate_steps, call_log,
                   writes, lookups, clicks, tgs_input, returned, aux>>
ChainFail(e) ==
    /\ pc = "chain"
    /\ Raise(cur, "GenerationFailure", e)
    /\ UNCHANGED <<selected_user_id, messages, intermediate_steps, tgs_calls,
                   call_log, writes, lookups, clicks, tgs_input, returned, aux>>

\* The steps of a run in progress
RunNext ==
    \/ PregelTick
    \/ StartNode
    \/ Merge
    \/ AnalyzerEnter
    \/ AgentToolCall
    \/ \E e \in GenerationErrors : AgentFail(e)
    \/ AgentFinish
    \/ BudgetorEnter
    \/ InvestorEnter
    \/ \E content \in LLMTexts : ChainReturn(content)
    \/ \E e \in GenerationErrors : ChainFail(e)

Next ==
    \/ \E u \in UserIds : SelectUser(u)
    \/ Click
    \/ RunNext

Spec == Init /\ [][Next]_vars

\* Every call a run waits for returns or fails, and the runner goes on: a run
\* in progress takes its next step.
SpecLive == Init /\ [][Next]_vars /\ WF_vars(RunNext)

----------------------------------------------------------------------------
(* Two browser sessions.  Each script run has its own record, local to its *)
(* app.invoke, and reaches st.session_state through its own session; the   *)
(* steps of the two runs interleave freely.  A node is one step from its   *)
(* start to the call of the service, and one from the answer to its return.*)

StageMessage(n) ==
    CASE n = "analyzer" -> "Analyzer Agent"
      [] n = "budgetor" -> "Budgetor Agent"
      [] n = "investor" -> "Investor Agent"

\* The field a stage reads from the record (lines 103, 154, 182)
InputField(n) ==
    CASE n = "analyzer" -> "user_id"
      [] n = "budgetor" -> "analysis_result"
      [] n = "investor" -> "budget_plan"

\* Traces the executor may hold when the model answers: none, or one call
AgentTraces(user_id) ==
    {<<>>} \cup {<<<<arg, get_transaction_data(arg, outcome)>>>> :
                    arg \in {user_id, "user_999"}, outcome \in LedgerOutcomes}

\* Lines 284-290 in session s
SessClick(s, u) ==
    /\ run[s].pc \in {"idle", "done"}
    /\ store' = [store EXCEPT ![StoreOf(s)] =
                    [results |-> None, messages |-> <<>>, status |-> "running"]]
    /\ run' = [run EXCEPT ![s] =
                  [pc |-> "loop", user |-> u, state |-> EmptyRecord,
                   next_node |-> START, cur |-> END, step |-> 0,
                   pending |-> [f \in {"user_id"} |-> u]]]
    /\ actor' = s
    /\ UNCHANGED <<flat_vars, config>>

\* The handler's except clause in session s
SessRaise(s) ==
    /\ store' = [store EXCEPT ![StoreOf(s)].status = "error"]
    /\ run' = [run EXCEPT ![s].pc = "done"]

\* One turn of the loop of session s's app.invoke
SessTick(s) ==
    /\ run[s].pc = "loop"
    /\ LET r == run[s]
       IN IF r.step >= recursion_limit
          THEN SessRaise(s)
          ELSE IF r.next_node = END
          THEN /\ store' = [store EXCEPT ![StoreOf(s)].results = <<r.state>>,
                                         ![StoreOf(s)].status = "complete"]
               /\ run' = [run EXCEPT ![s].pc = "done"]
          ELSE IF r.next_node = START
          THEN /\ run' = [run EXCEPT ![s].cur = START, ![s].step = @ + 1,
                                     ![s].pc = "merge"]
               /\ UNCHANGED store
          ELSE /\ store' = [store EXCEPT ![StoreOf(s)].messages =
                                            Append(@, StageMessage(r.next_node))]
               /\ run' = [run EXCEPT ![s].cur = r.next_node, ![s].step = @ + 1,
                                     ![s].pc = IF InputField(r.next_node) \in DOMAIN r.state
                                               THEN "call" ELSE "done"]
    /\ actor' = s
    /\ UNCHANGED <<flat_vars, config>>

\* The service answers the stage running in session s.
SessReturn(s, text) ==
    /\ run[s].pc = "call"
    /\ LET r == run[s]
       IN \/ /\ r.cur = "analyzer"
             /\ \E steps \in AgentTraces(r.state["user_id"]) :
                   LET outcome == AnalyzerOutcome(r.state["user_id"], text, steps)
                   IN /\ outcome.kind = "update"
                      /\ run' = [run EXCEPT ![s].pending = outcome.update,
                                            ![s].pc = "merge"]
          \/ /\ r.cur # "analyzer"
             /\ run' = [run EXCEPT ![s].pending =
                                       IF r.cur = "budgetor" THEN BudgetorUpdate(text)
                                       ELSE InvestorUpdate(text),
                                   ![s].pc = "merge"]
    /\ actor' = s
    /\ UNCHANGED <<store, flat_vars, config>>

\* The service call of the stage running in session s raises.
SessFail(s) ==
    /\ run[s].pc = "call"
    /\ SessRaise(s)
    /\ actor' = s
    /\ UNCHANGED <<flat_vars, config>>

\* The update of the node running in session s is merged.
SessMerge(s) ==
    /\ run[s].pc = "merge"
    /\ run' = [run EXCEPT ![s].state = MergeUpdate(run[s].state, run[s].pending),
                          ![s].pending = EmptyRecord,
                          ![s].next_node = edges[run[s].cur],
                          ![s].pc = "loop"]
    /\ actor' = s
    /\ UNCHANGED <<store, flat_vars, config>>

InitTwo == Init /\ config = FullConfig

NextTwo ==
    \/ \E s \in SessionIds, u \in UserIds : SessClick(s, u)
    \/ \E s \in SessionIds : SessTick(s)
    \/ \E s \in SessionIds, text \in LLMTexts : SessReturn(s, text)
    \/ \E s \in SessionIds : SessFail(s)
    \/ \E s \in SessionIds : SessMerge(s)

SpecTwo == InitTwo /\ [][NextTwo]_vars

----------------------------------------------------------------------------
(* Vocabulary of the properties *)

Has(record, f) == f \in DOMAIN record

\* The field each stage must produce
OutputOf(n) ==
    CASE n = "analyzer" -> "analysis_result"
      [] n = "budgetor" -> "budget_plan"
      [] n = "investor" -> "investment_options"

\* The fields each writer owns
OwnerOf(f) ==
    CASE f = "user_id" -> START
      [] f \in {"analysis_result", "raw_data"} -> "analyzer"
      [] f = "budget_plan" -> "budgetor"
      [] f = "investment_options" -> "investor"

\* Position of a stage in the chain
Rank(n) == CASE n = "analyzer" -> 1 [] n = "budgetor" -> 2 [] n = "investor" -> 3

Logged(event) == \E i \in 1..Len(call_log) : call_log[i] = event

\* Every logged invocation of n comes after a logged merge of m
InvokedOnlyAfterMerge(n, m) ==
    \A i \in 1..Len(call_log) :
        call_log[i] = <<"invoke", n>> =>
            \E j \in 1..(i - 1) : call_log[j] = <<"merge", m>>

RunFailed == pc = "done" /\ status = "error" /\ results = None

RunSucceeded == pc = "done" /\ status = "complete" /\ results # None

GenerationFailed == failure.kind = "GenerationFailure"

\* The text written by the failed-retrieval branch (line 147)
IsDegenerate(text) ==
    /\ Len(text) >= 1
    /\ text[1] = "Failed to retrieve data. Check user ID and database.\nDetails: "

\* Some lookup was made, and every one failed or found no record
LookupFailed ==
    /\ lookups # <<>>
    /\ \A i \in 1..Len(lookups) : LookupKind(lookups[i]) \in {"exception", "empty"}

AnalyzerMerged == Logged(<<"merge", "analyzer">>)

----------------------------------------------------------------------------
(* Properties *)

\* C1: the Budgetor is never invoked before the Analyzer's update has been
\* merged into the state record, and the Investor never before the
\* Budgetor's update has been merged.
C1_StagesInvokedAfterMerge ==
    /\ InvokedOnlyAfterMerge("budgetor", "analyzer")
    /\ InvokedOnlyAfterMerge("investor", "budgetor")
    /\ Logged(<<"invoke", "budgetor">>) => Has(state, "analysis_result")
    /\ Logged(<<"invoke", "investor">>) => Has(state, "budget_plan")

C1_Witness ==
    /\ pc = "chain"
    /\ cur = "investor"
    /\ Logged(<<"merge", "budgetor">>)

\* C2: budget_plan is set only if analysis_result is set, and
\* investment_options only if budget_plan is set, in the running record and
\* in the stored results.
C2_DependencyChain ==
    /\ Has(state, "budget_plan") => Has(state, "analysis_result")
    /\ Has(state, "investment_options") => Has(state, "budget_plan")
    /\ results # None =>
          /\ Has(results[1], "budget_plan") => Has(results[1], "analysis_result")
          /\ Has(results[1], "investment_options") => Has(results[1], "budget_plan")

C2_Witness ==
    /\ Has(state, "budget_plan")
    /\ ~Has(state, "investment_options")
    /\ failure.stage = "investor"

\* C3: a Text Generation Service failure in a stage ends the run at once:
\* no later stage is invoked, the fields of the failing and of the later
\* stages are unset, the fields of the earlier stages are populated, and
\* the run is reported as failed.
C3_FailureStopsRun ==
    GenerationFailed =>
        /\ RunFailed
        /\ \A n \in Stages :
              IF Rank(n) < Rank(failure.stage)
              THEN Has(state, OutputOf(n))
              ELSE /\ ~Has(state, OutputOf(n))
                   /\ Rank(n) > Rank(failure.stage) => ~Logged(<<"invoke", n>>)

C3_Witness ==
    /\ GenerationFailed
    /\ failure.stage = "budgetor"
    /\ Has(state, "analysis_result")
    /\ ~Has(state, "budget_plan")
    /\ ~Has(state, "investment_options")

\* C4: the failure shown to the caller names the stage that failed and
\* carries the underlying error message.
C4_FailureNamesStage ==
    GenerationFailed =>
        /\ \E i \in 1..Len(error_text) : error_text[i] = failure.stage
        /\ \E i \in 1..Len(error_text) : <<error_text[i]>> = failure.e

\* C5: when the lookup fails or finds no record the Analyzer does not fail,
\* writes the degenerate analysis_result, and a run without generation
\* failure ends in success with budget_plan and investment_options set.
C5_LookupFailureDegenerates ==
    LookupFailed =>
        /\ failure.kind \in {"none", "GenerationFailure"}
        /\ AnalyzerMerged => IsDegenerate(state["analysis_result"])
        /\ (pc = "done" /\ failure.kind = "none") =>
              /\ RunSucceeded
              /\ Has(results[1], "budget_plan")
              /\ Has(results[1], "investment_options")

\* C6: when the service answers without calling the ledger tool, the
\* Analyzer takes the degenerate path instead of writing the generated text
\* as a normal analysis.
C6_EmptyTraceDegenerates ==
    (AnalyzerMerged /\ lookups = <<>>) =>
        /\ IsDegenerate(state["analysis_result"])
        /\ ~Has(state, "raw_data")

\* C7: within a run every field is written at most once and only by its
\* owner, and user_id keeps the value the caller gave.
C7_SingleWriter ==
    /\ \A f \in Fields :
          /\ Len(writes[f]) <= 1
          /\ \A i \in 1..Len(writes[f]) : writes[f][i] = OwnerOf(f)
    /\ \A f \in DOMAIN state : writes[f] # <<>>
    /\ (pc \notin {"idle", "done"} /\ Has(state, "user_id")) =>
          state["user_id"] = selected_user_id
    /\ results # None => results[1]["user_id"] = state["user_id"]

C7_Witness ==
    /\ RunSucceeded
    /\ \A f \in Fields : Len(writes[f]) = 1

\* C8: a generation failure in a stage comes with exactly one call of the
\* service for that stage, and with a failed run.
C8_NoRetry ==
    GenerationFailed =>
        /\ tgs_calls[failure.stage] = 1
        /\ RunFailed

C8_Witness ==
    /\ GenerationFailed
    /\ failure.stage = "investor"
    /\ tgs_calls = [s \in Stages |-> 1]

\* C9: a finished run is either a surfaced failure, or a final record with
\* user_id, analysis_result, budget_plan and investment_options populated,
\* and never both.
C9_Surfaced == status = "error" /\ error_text # <<>> /\ results = None

C9_Complete ==
    /\ status = "complete"
    /\ error_text = <<>>
    /\ results # None
    /\ Has(results[1], "user_id")
    /\ results[1]["user_id"] \in UserIds
    /\ \A f \in {"analysis_result", "budget_plan", "investment_options"} :
          /\ Has(results[1], f)
          /\ results[1][f] # <<>>

C9_TwoOutcomes == pc = "done" => (C9_Surfaced # C9_Complete)

C9_Witness == pc = "done" /\ C9_Complete /\ clicks = 2

\* C10: no run of the three-node chain exhausts the step budget.
C10_BudgetNeverExhausted == failure.kind # "GraphRecursionError"

C10_Witness == RunSucceeded /\ step = Cardinality(Stages) + 1 /\ step < recursion_limit

\* What session s's store must hold, given only s's own run
OwnStore(s) ==
    LET r == run[s]
        st == store[s]
        stages == <<"analyzer", "budgetor", "investor">>
        entered == IF r.step > 1 THEN r.step - 1 ELSE 0
    IN /\ st.messages = [i \in 1..entered |-> StageMessage(stages[i])]
       /\ r.pc \in {"loop", "call", "merge"} => st.status = "running" /\ st.results = None
       /\ st.results # None =>
             /\ r.pc = "done"
             /\ st.status = "complete"
             /\ st.results[1] = r.state
             /\ r.state["user_id"] = r.user
       /\ Has(r.state, "user_id") => r.state["user_id"] = r.user

\* C11: two runs in different sessions are independent: a step of one run
\* changes neither the record nor the stored results, status and progress
\* messages of the other, and each session's store holds what its own run
\* produced, under every interleaving.
C11_RunsIndependent ==
    [][\A s \in SessionIds :
          /\ s # actor' => (run'[s] = run[s] /\ store'[s] = store[s])
          /\ OwnStore(s)']_vars

C11_Witness ==
    /\ run["s1"].pc = "call"
    /\ run["s1"].cur = "budgetor"
    /\ run["s2"].pc = "call"
    /\ run["s2"].cur = "investor"
    /\ run["s1"].user = run["s2"].user
    /\ run["s1"].state["analysis_result"] # run["s2"].state["analysis_result"]

ConfigMissing == ~config.api_key \/ ~config.key_file

\* C12: with the API key or the credentials missing at process start no
\* run ever begins, and the missing configuration never shows up as a
\* failed lookup in the middle of a run.
C12_ConfigFailureAtStart ==
    ConfigMissing =>
        /\ clicks = 0
        /\ pc \notin {"loop", "node", "agent", "chain", "merge"}
        /\ lookups = <<>>

----------------------------------------------------------------------------
(* Rendering of a stored record (lines 297-321) *)

\* The metrics the page shows: none while results is None
Rendered ==
    IF results = None THEN <<>>
    ELSE <<parse_metrics(Get(results[1], "analysis_result", <<"No analysis available.">>))>>

\* The shown amount reads as the number n
Denotes(shown, n) ==
    /\ shown # NotAvailable
    /\ FloatOf(Tail(shown)) = [kind |-> "float", val |-> n]

\* The shown metrics read as the sums of `rows`
ShowsSumsOf(m, rows) ==
    /\ Denotes(m.income, SumIf(rows, 1))
    /\ Denotes(m.spending, SumIf(rows, -1))
    /\ m.net_flow.delta_color # "off"
    /\ m.net_flow.val = SumIf(rows, 0)

\* Positions of the lookups that returned this kind
LookupsOf(kind) == {i \in 1..Len(lookups) : LookupKind(lookups[i]) = kind}

IsNoTransactions(text) ==
    \/ Contains(text, "No transactions were found for this user.")
    \/ Contains(text, "No transactions found for user_id '")

\* C13: when the stored analysis states the metrics of a non-empty
\* transaction sequence the lookup returned, the metrics parsed back from it
\* are the sum of the positive amounts, the sum of the negative amounts, and
\* their sum.
C13_MetricsParseBack ==
    \A i \in LookupsOf("rows"), style \in SignStyles :
        (results # None /\ results[1]["analysis_result"] = MetricsText(lookups[i].rows, style))
            => ShowsSumsOf(Rendered[1], lookups[i].rows)

\* C14: when every lookup of the run found no transactions and the Analyzer
\* has written its result, the metrics in it are all 0 and the text says
\* that no transactions were found.
C14_NoTransactionsZeroMetrics ==
    (AnalyzerMerged /\ lookups # <<>> /\ LookupsOf("empty") = 1..Len(lookups))
        => /\ failure.stage # "analyzer"
           /\ IsNoTransactions(state["analysis_result"])
           /\ ShowsSumsOf(parse_metrics(state["analysis_result"]), <<>>)

\* C15: after a run, a failed run and a run that succeeded after lookups
\* that found nothing never show the same stored results and status: the
\* failed run leaves no results and the status "error" with an error text,
\* the succeeded run leaves its record and the status "complete".
C15_FailedDistinctFromDegenerate ==
    pc = "done" =>
        /\ failure.kind # "none" => (results = None /\ status = "error" /\ error_text # <<>>)
        /\ failure.kind = "none" =>
              (results # None /\ status = "complete" /\ error_text = <<>>
               /\ Has(results[1], "analysis_result"))
        /\ (LookupFailed /\ failure.kind = "none") => RunSucceeded

C15_Witness == RunSucceeded /\ LookupFailed /\ LookupsOf("empty") # {}

\* C16: the text the Budgetor passes to the service is the analysis_result
\* the Analyzer returned in this run, the text the Investor passes is the
\* budget_plan the Budgetor returned in this run, both fields are in the
\* record when their reader is invoked, and no stage fails on a missing field.
C16_StagesReadWhatWasWritten ==
    /\ Logged(<<"invoke", "budgetor">>) =>
          /\ returned["analyzer"] # <<>>
          /\ Has(state, "analysis_result")
          /\ state["analysis_result"] = returned["analyzer"][1]["analysis_result"]
    /\ tgs_input["budgetor"] # <<>> =>
          tgs_input["budgetor"][1] = returned["analyzer"][1]["analysis_result"]
    /\ Logged(<<"invoke", "investor">>) =>
          /\ returned["budgetor"] # <<>>
          /\ Has(state, "budget_plan")
          /\ state["budget_plan"] = returned["budgetor"][1]["budget_plan"]
    /\ tgs_input["investor"] # <<>> =>
          tgs_input["investor"][1] = returned["budgetor"][1]["budget_plan"]
    /\ failure.kind # "KeyError"

C16_Witness ==
    /\ pc = "chain"
    /\ cur = "investor"
    /\ tgs_input["investor"] # <<>>
    /\ tgs_input["investor"][1] # tgs_input["budgetor"][1]

\* C17: the Analyzer returns the "Failed to retrieve data" text, or no
\* raw_data, only when the lookup returned an error or nothing; after a
\* lookup that returned rows it returns the generated narrative together
\* with the retrieved data as raw_data.
C17_FailedPathOnlyOnFailedLookup ==
    returned["analyzer"] # <<>> =>
        LET update == returned["analyzer"][1]
            failed_path == IsDegenerate(update["analysis_result"]) \/ ~Has(update, "raw_data")
        IN /\ failed_path => (lookups # <<>> /\ LookupKind(lookups[1]) # "rows")
           /\ (lookups # <<>> /\ LookupKind(lookups[1]) = "rows") =>
                 /\ ~failed_path
                 /\ update["analysis_result"] \in AnalysisTexts(lookups)
                 /\ update["raw_data"] = JsonList(lookups[1].rows)

\* C18: the stored results are None or the complete final record of the
\* most recent click's run; while that run is in progress and after it has
\* failed they are None.
C18_ResultsOfLastClick ==
    /\ pc \in {"loop", "node", "agent", "chain", "merge"} => results = None
    /\ (pc = "done" /\ failure.kind # "none") => results = None
    /\ results # None =>
          /\ clicks >= 1
          /\ pc = "done"
          /\ results[1] = state
          /\ DOMAIN results[1] = Fields
          /\ results[1]["analysis_result"] = returned["analyzer"][1]["analysis_result"]
          /\ results[1]["budget_plan"] = returned["budgetor"][1]["budget_plan"]
          /\ results[1]["investment_options"] = returned["investor"][1]["investment_options"]

C18_Witness == clicks = 2 /\ pc = "done" /\ failure.kind # "none" /\ results = None

Running == pc \in {"loop", "node", "agent", "chain", "merge"}

InvokeCount(n) == Cardinality({i \in 1..Len(call_log) : call_log[i] = <<"invoke", n>>})

\* C19: when every call a run waits for returns or fails, every run in
\* progress comes to its end, and within one run each of the three stages
\* is invoked at most once.
C19_TerminatesEachStageOnce ==
    /\ Running ~> pc = "done"
    /\ [](\A n \in Stages : InvokeCount(n) <= 1)

C19_Witness == pc = "done" /\ clicks = 2 /\ \A n \in Stages : InvokeCount(n) = 1

====
